---- MODULE Spec2Model ----
(***************************************************************************)
(* Model of canvas_spoof.js: the installer that replaces                   *)
(* HTMLCanvasElement.prototype.toDataURL / toBlob by wrappers which add    *)
(* noise to the alpha channel of the canvas and then forward to the        *)
(* captured export function.                                               *)
(*                                                                         *)
(* An export function value is represented by the number of wrappers      *)
(* around the native function: 0 is the native function, k+1 is a wrapper  *)
(* whose captured original is the value k.                                 *)
(***************************************************************************)
EXTENDS Integers, Sequences, FiniteSets, TLC

\* ---------------------------------------------------------------- bounds
MaxPixels == 2
MaxCalls == 2
MaxInstalls == 2

\* ------------------------------------------------------------ data model
\* Math.floor(Math.random() * 3) - 1
NoiseDeltasSkewed == {-1, 0, 1, 2}
NoiseDeltas == {-1, 0, 1}

\* x & 255 on a 32-bit two's complement integer
BitAnd127(x) == x % 128
BitAnd255(x) == x % 256

\* RGBA pixels a page may have drawn
PixelSeeds == { <<255, 0, 0, 255>>, <<12, 200, 77, 0>> }

Sizes == { wh \in (0..MaxPixels) \X (0..MaxPixels) : wh[1] * wh[2] <= MaxPixels }

\* the row-major RGBA byte buffer of an image of n pixels
Flat(img, n) == [k \in 1..(4 * n) |-> img[((k - 1) \div 4) + 1][((k - 1) % 4) + 1]]

Buffers(n) == { Flat(img, n) : img \in [1..n -> PixelSeeds] }

NumPixels(cv) == cv.width * cv.height

NoValue == [mime |-> "none", width |-> 0, height |-> 0, data |-> << >>]
Returned(v) == [kind |-> "return", err |-> "none", value |-> v]
Thrown(e) == [kind |-> "throw", err |-> e, value |-> NoValue]

\* ------------------------------------------------- native browser functions
\* getImageData.call(context, 0, 0, width, height)
GetImageData(context, cv) ==
    IF context = "null" THEN Thrown("TypeError")
    ELSE IF cv.width = 0 \/ cv.height = 0 THEN Thrown("IndexSizeError")
    ELSE IF cv.tainted THEN Thrown("SecurityError")
    ELSE Returned([mime |-> "imagedata", width |-> cv.width, height |-> cv.height,
                   data |-> cv.data])

\* this.getContext("2d")
GetContext(cv) == cv.context

MimeOf(fn, args) ==
    LET pos == IF fn = "toDataURL" THEN 1 ELSE 2
    IN  IF Len(args) >= pos /\ args[pos] \in {"image/png", "image/jpeg"}
        THEN args[pos] ELSE "image/png"

\* the native toDataURL / toBlob applied to receiver `this` with `args`
NativeExport(fn, this, cv, args) ==
    IF this # "canvas" THEN Thrown("TypeError")
    ELSE IF cv.tainted THEN Thrown("SecurityError")
    ELSE Returned([mime |-> MimeOf(fn, args), width |-> cv.width,
                   height |-> cv.height, data |-> cv.data])

ArgLists(fn) ==
    IF fn = "toDataURL" THEN { << >>, <<"image/jpeg", "0.5">> }
    ELSE { <<"callback">>, <<"callback", "image/jpeg">> }

\* ------------------------------------------------------------ noisyFunction
\* if (!context) return ... if (width === 0 || height === 0) return
SkipNoiseNoSizeCheck(cv, context) == context = "null"
SkipNoise(cv, context) == context = "null" \/ cv.width = 0 \/ cv.height = 0

\* data[i + 3] = (data[i + 3] + noise) & 255, i is the 0-based byte offset
NoisePixelBlue(data, i, noise) == [data EXCEPT ![i + 3] = BitAnd255(data[i + 3] + noise)]
NoisePixel(data, i, noise) == [data EXCEPT ![i + 4] = BitAnd255(data[i + 4] + noise)]

\* for (let i = 0; i < data.length; i += 4): nz[p] is the draw for pixel p
RECURSIVE NoiseLoop(_, _, _)
NoiseLoop(data, i, nz) ==
    IF i < Len(data)
    THEN NoiseLoop(NoisePixel(data, i, nz[(i \div 4) + 1]), i + 4, nz)
    ELSE data

\* context.putImageData(imageData, 0, 0)
PutImageData(cv, data) == [cv EXCEPT !.data = data]

\* one run of noisyFunction(canvas, context) with the random draws nz
NoisyFunction(cv, context, nz) ==
    IF SkipNoise(cv, context)
    THEN [canvas |-> cv, err |-> "none", events |-> << >>]
    ELSE LET got == GetImageData(context, cv)
         IN  IF got.kind = "throw"
             THEN [canvas |-> cv, err |-> got.err, events |-> <<"getImageData">>]
             ELSE [canvas |-> PutImageData(cv, NoiseLoop(got.value.data, 0, nz)),
                   err |-> "none",
                   events |-> <<"getImageData", "putImageData">>]

NoisyRuns(cv) ==
    { NoisyFunction(cv, GetContext(cv), nz) : nz \in [1..NumPixels(cv) -> NoiseDeltas] }

\* ------------------------------------------------------- patched wrappers
\* originalToDataURL.apply(this, arguments): the receiver and the arguments
ForwardThis == "canvas"

ForwardArgsDropped(args) == << >>
ForwardArgs(args) == args

WrapperEvents == <<"wrapper", "getContext">>

\* an exception of noisyFunction leaves the wrapper: nothing catches it there
NoCallSwallowed(cv, r) ==
    [canvas |-> cv, outcome |-> Returned(NoValue), trace |-> WrapperEvents \o r.events,
     nativeThis |-> "none", nativeArgs |-> << >>, noiseErr |-> r.err]
NoCall(cv, r) ==
    [canvas |-> cv, outcome |-> Thrown(r.err), trace |-> WrapperEvents \o r.events,
     nativeThis |-> "none", nativeArgs |-> << >>, noiseErr |-> r.err]

RECURSIVE Invoke(_, _, _, _, _)

\* a wrapper that forwards to this[fn], the patched slot, instead of the captured
\* function: it re-enters itself until the engine's stack is exhausted
PatchedExportReentrant(fn, captured, cv, args) ==
    UNION { IF r.err # "none"
            THEN { NoCall(r.canvas, r) }
            ELSE { [canvas |-> r2.canvas, outcome |-> Thrown("RangeError"),
                    trace |-> WrapperEvents \o r.events \o WrapperEvents \o r2.events,
                    nativeThis |-> "none", nativeArgs |-> << >>, noiseErr |-> "none"] :
                     r2 \in NoisyRuns(r.canvas) }
          : r \in NoisyRuns(cv) }

\* function () { noisyFunction(this, this.getContext("2d"));
\*               return original.apply(this, arguments) }
\* `captured` is the export function value the installer captured
PatchedExport(fn, captured, cv, args) ==
    UNION { IF r.err # "none"
            THEN { NoCall(r.canvas, r) }
            ELSE { [x EXCEPT !.trace = WrapperEvents \o r.events \o @] :
                     x \in Invoke(fn, captured, ForwardThis, r.canvas, ForwardArgs(args)) }
          : r \in NoisyRuns(cv) }

\* a call of the export function value `layers` on the canvas
Invoke(fn, layers, this, cv, args) ==
    IF layers = 0
    THEN { [canvas |-> cv, outcome |-> NativeExport(fn, this, cv, args),
            trace |-> <<"native">>, nativeThis |-> this, nativeArgs |-> args,
            noiseErr |-> "none"] }
    ELSE PatchedExport(fn, layers - 1, cv, args)

\* ---------------------------------------------------------------- installer
\* the statements of the guarded block that touch the host, in program order
InstallSteps == <<"getImageData", "getToDataURL", "setToDataURL", "getToBlob", "setToBlob">>

HostFailures == {"none"} \cup { InstallSteps[i] : i \in 1..Len(InstallSteps) }

StepIndex(step) == CHOOSE i \in 1..Len(InstallSteps) : InstallSteps[i] = step

\* the statement `step` ran to completion on a host that throws at `h`
Completed(h, step) == h = "none" \/ StepIndex(step) < StepIndex(h)

\* one evaluation of the script: try { ... } catch (e) { console.error(...) }
RunInstaller(h, tdu, tb) ==
    [toDataURL |-> IF Completed(h, "setToDataURL") THEN tdu + 1 ELSE tdu,
     toBlob    |-> IF Completed(h, "setToBlob") THEN tb + 1 ELSE tb,
     logged    |-> IF h = "none" THEN 0 ELSE 1]

\* ------------------------------------------------------------------- state
VARIABLES
    canvas,          \* the canvas element: width, height, context, tainted, data
    orig,            \* the pixel buffer the page drew (never changes)
    host,            \* the installer statement at which the host throws, or "none"
    protoToDataURL,  \* HTMLCanvasElement.prototype.toDataURL
    protoToBlob,     \* HTMLCanvasElement.prototype.toBlob
    installs,        \* evaluations of the script so far
    consoleErrors,   \* console.error calls so far
    calls,           \* export calls the page made so far
    patchedCalls,    \* of these, the calls that entered a wrapper
    last             \* what the most recent export call did

vars == <<canvas, orig, host, protoToDataURL, protoToBlob, installs,
          consoleErrors, calls, patchedCalls, last>>

Canvases ==
    UNION { [width : {wh[1]}, height : {wh[2]}, context : {"2d", "null"},
             tainted : BOOLEAN, data : Buffers(wh[1] * wh[2])] : wh \in Sizes }

NoLast ==
    [fn |-> "none", args |-> << >>, layers |-> 0, outcome |-> Returned(NoValue),
     trace |-> << >>, nativeThis |-> "none", nativeArgs |-> << >>, noiseErr |-> "none"]

Init ==
    /\ canvas \in Canvases
    /\ orig = canvas.data
    /\ host \in HostFailures
    /\ protoToDataURL = 0
    /\ protoToBlob = 0
    /\ installs = 0
    /\ consoleErrors = 0
    /\ calls = 0
    /\ patchedCalls = 0
    /\ last = NoLast

Evaluate ==
    LET r == RunInstaller(host, protoToDataURL, protoToBlob)
    IN  /\ protoToDataURL' = r.toDataURL
        /\ protoToBlob' = r.toBlob
        /\ consoleErrors' = consoleErrors + r.logged
        /\ installs' = installs + 1
        /\ UNCHANGED <<canvas, orig, host, calls, patchedCalls, last>>

\* the page-lifecycle actor evaluates the script in a fresh page context
Install == installs = 0 /\ Evaluate

\* the script is evaluated again in the same page context
Reinstall == installs >= 1 /\ installs < MaxInstalls /\ Evaluate

Slot(fn) == IF fn = "toDataURL" THEN protoToDataURL ELSE protoToBlob

\* a page script calls canvas.toDataURL(...args) or canvas.toBlob(...args)
Call(fn) ==
    /\ installs >= 1
    /\ calls < MaxCalls
    /\ \E args \in ArgLists(fn) :
         \E r \in Invoke(fn, Slot(fn), "canvas", canvas, args) :
            /\ canvas' = r.canvas
            /\ last' = [fn |-> fn, args |-> args, layers |-> Slot(fn),
                        outcome |-> r.outcome, trace |-> r.trace,
                        nativeThis |-> r.nativeThis, nativeArgs |-> r.nativeArgs,
                        noiseErr |-> r.noiseErr]
    /\ calls' = calls + 1
    /\ patchedCalls' = IF Slot(fn) > 0 THEN patchedCalls + 1 ELSE patchedCalls
    /\ UNCHANGED <<orig, host, protoToDataURL, protoToBlob, installs, consoleErrors>>

CallToDataURL == Call("toDataURL")

CallToBlob == Call("toBlob")

Next == Install \/ CallToDataURL \/ CallToBlob

Spec == Init /\ [][Next]_vars

NextReinstall == Install \/ Reinstall \/ CallToDataURL \/ CallToBlob

SpecReinstall == Init /\ [][NextReinstall]_vars

\* ------------------------------------------------------------- properties
Count(ev, trace) == Cardinality({ i \in 1..Len(trace) : trace[i] = ev })

Degenerate(cv) == cv.context = "null" \/ cv.width = 0 \/ cv.height = 0

\* the 1-based positions of the alpha bytes of a buffer
AlphaAt(data) == { k \in 1..Len(data) : k % 4 = 0 }

AllAlphaIn(data, S) == \A k \in AlphaAt(data) : data[k] \in S

\* this step is a patched export call whose noise application wrote pixels back
NoiseStep ==
    /\ calls' = calls + 1
    /\ last'.layers >= 1
    /\ Count("putImageData", last'.trace) = 1

\* C1: one noise application on a canvas with width > 0, height > 0 and a 2D
\* context keeps the buffer length and the geometry, keeps every red, green and
\* blue byte, and moves every alpha byte by -1, 0 or +1 modulo 256.
C1_NoiseTouchesOnlyAlpha ==
    [][ NoiseStep =>
          /\ Len(canvas'.data) = Len(canvas.data)
          /\ canvas'.width = canvas.width /\ canvas'.height = canvas.height
          /\ \A k \in 1..Len(canvas.data) :
                IF k \in AlphaAt(canvas.data)
                THEN canvas'.data[k] \in { (canvas.data[k] - 1) % 256, canvas.data[k],
                                          (canvas.data[k] + 1) % 256 }
                ELSE canvas'.data[k] = canvas.data[k] ]_vars

\* a first noisy call wrapped an opaque pixel's alpha from 255 to 0
C1_Witness ==
    /\ calls = 1 /\ last.layers = 1 /\ Count("putImageData", last.trace) = 1
    /\ NumPixels(canvas) = 2
    /\ \E k \in AlphaAt(orig) : orig[k] = 255 /\ canvas.data[k] = 0

\* C2: on a canvas with width 0, height 0 or no 2D context a patched export call
\* reads no pixels, writes no pixels, raises nothing in the noise step and yields
\* what the native export yields on the unmodified canvas.
C2_DegenerateIsNative ==
    (last.layers >= 1 /\ Degenerate(canvas)) =>
        /\ Count("getImageData", last.trace) = 0
        /\ Count("putImageData", last.trace) = 0
        /\ last.noiseErr = "none"
        /\ canvas.data = orig
        /\ last.outcome = NativeExport(last.fn, "canvas", canvas, last.args)

\* a patched toDataURL call returned on a zero-width canvas that has a context
C2_Witness ==
    /\ last.layers = 1 /\ last.fn = "toDataURL"
    /\ canvas.width = 0 /\ canvas.height > 0 /\ canvas.context = "2d"
    /\ last.outcome.kind = "return"

\* C3: after the script was evaluated twice, one patched export call whose noise
\* step does not throw applies noise exactly once and calls the native export
\* exactly once.
C3_NoDoubleWrap ==
    (installs >= 2 /\ last.layers >= 1 /\ last.noiseErr = "none") =>
        /\ Count("wrapper", last.trace) = 1
        /\ Count("putImageData", last.trace) <= 1
        /\ Count("native", last.trace) = 1

\* C4: when reading or writing pixels throws inside a patched export call, the
\* wrapper still calls the captured export function exactly once with the
\* caller's receiver and arguments.
C4_NoiseErrorStillForwards ==
    (last.layers >= 1 /\ last.noiseErr # "none") =>
        /\ Count("native", last.trace) = 1
        /\ last.nativeThis = "canvas"
        /\ last.nativeArgs = last.args

\* C5: once the installer has finished, toDataURL and toBlob are both patched
\* or both native, and a failed installation is logged and leaves both native.
C5_AllOrNothing ==
    installs >= 1 =>
        /\ (protoToDataURL > 0) = (protoToBlob > 0)
        /\ host # "none" =>
              (consoleErrors >= 1 /\ protoToDataURL = 0 /\ protoToBlob = 0)

\* C6: when the noise step of a patched toDataURL or toBlob call does not throw,
\* the wrapper calls the captured native function exactly once, last, with the
\* caller's receiver and arguments, and the call's outcome is that call's outcome.
C6_ForwardsOnceUnchanged ==
    (last.layers >= 1 /\ last.noiseErr = "none") =>
        /\ Count("native", last.trace) = 1
        /\ last.trace[Len(last.trace)] = "native"
        /\ last.nativeThis = "canvas"
        /\ last.nativeArgs = last.args
        /\ last.outcome = NativeExport(last.fn, "canvas", canvas, last.args)

\* a patched toBlob call with a type argument added noise and then returned
C6_Witness ==
    /\ last.layers = 1 /\ last.fn = "toBlob" /\ last.args = <<"callback", "image/jpeg">>
    /\ Count("putImageData", last.trace) = 1
    /\ last.outcome.kind = "return" /\ last.outcome.value.mime = "image/jpeg"

\* C7: when getImageData throws on a tainted canvas, the patched export call
\* throws an error of the category the native export throws on that canvas.
C7_TaintedStillThrows ==
    (last.layers >= 1 /\ canvas.tainted /\ Count("getImageData", last.trace) >= 1) =>
        /\ last.outcome.kind = "throw"
        /\ last.outcome.err = NativeExport(last.fn, "canvas", canvas, last.args).err

\* a patched call on a tainted 2D canvas whose pixel read threw a SecurityError
C7_Witness ==
    /\ last.layers = 1 /\ canvas.tainted /\ canvas.context = "2d"
    /\ NumPixels(canvas) > 0
    /\ last.noiseErr = "SecurityError"

\* C8 as stated: on a canvas whose every alpha is 255, one noise application
\* leaves every alpha in {254, 255}.
C8_OpaqueStays254Or255 ==
    [][ (NoiseStep /\ Len(canvas.data) > 0 /\ AllAlphaIn(canvas.data, {255})) =>
          AllAlphaIn(canvas'.data, {254, 255}) ]_vars

\* C8 amended: on a canvas whose every alpha is 255, one noise application
\* leaves every alpha in {254, 255, 0}: the draw +1 wraps 255 to 0.
C8_OpaqueWraps ==
    [][ (NoiseStep /\ Len(canvas.data) > 0 /\ AllAlphaIn(canvas.data, {255})) =>
          AllAlphaIn(canvas'.data, {254, 255, 0}) ]_vars

\* a fully opaque canvas after its first noisy call holds an alpha of 0 and
\* another of 254
C8_Witness ==
    /\ calls = 1 /\ last.layers = 1 /\ Count("putImageData", last.trace) = 1
    /\ Len(orig) > 0 /\ AllAlphaIn(orig, {255})
    /\ \E j, k \in AlphaAt(canvas.data) : canvas.data[j] = 0 /\ canvas.data[k] = 254

\* C9: after a single installation a patched export call enters the wrapper
\* once, applies noise at most once (one pixel read, one pixel write, nothing
\* else) and calls the original function at most once.
C9_NoReentry ==
    last.layers >= 1 =>
        /\ Count("wrapper", last.trace) = 1
        /\ Count("getImageData", last.trace) <= 1
        /\ Count("putImageData", last.trace) <= 1
        /\ Count("native", last.trace) <= 1
        /\ \A i \in 1..Len(last.trace) :
              last.trace[i] \in {"wrapper", "getContext", "getImageData",
                                 "putImageData", "native"}

\* a patched call ran the wrapper, the pixel read, the pixel write and the
\* native export, in that order
C9_Witness ==
    /\ installs = 1 /\ last.layers = 1
    /\ last.trace = <<"wrapper", "getContext", "getImageData", "putImageData", "native">>

\* C10: after k patched export calls every alpha equals its original value plus
\* some d with |d| <= k modulo 256, and every colour byte, the buffer length and
\* the geometry are the original ones.
C10_NoiseAccumulates ==
    /\ Len(canvas.data) = Len(orig)
    /\ Len(canvas.data) = 4 * canvas.width * canvas.height
    /\ \A k \in 1..Len(orig) :
          IF k \in AlphaAt(orig)
          THEN \E d \in (0 - patchedCalls)..patchedCalls :
                  canvas.data[k] = (orig[k] + d) % 256
          ELSE canvas.data[k] = orig[k]

\* two patched calls moved one alpha by two and wrapped another below zero
C10_Witness ==
    /\ patchedCalls = 2 /\ NumPixels(canvas) = 2
    /\ \E j, k \in AlphaAt(orig) :
          /\ orig[j] = 255 /\ canvas.data[j] = 253
          /\ orig[k] = 0 /\ canvas.data[k] = 254

====
